---- MODULE Spec2Model ----
(***************************************************************************)
(* Model of MichaelAI2.3.py: the chat window (ChatGUI: UI thread, one      *)
(* worker thread per chat request, Tk's queue of `after` callbacks), the   *)
(* start-up sequence (main, ensure_ollama_running, start_ollama_server)    *)
(* and the model recommendation table (get_recommended_models).            *)
(***************************************************************************)
EXTENDS Integers, Sequences, FiniteSets, TLC

(***************************************************************************)
(* Bounds of the model.                                                    *)
(***************************************************************************)
MaxRequests == 2
MaxUploads == 1
UnitsPerGB == 2
MaxVramGB == 9
MaxRamGB == 9
MaxPrompts == 3

(***************************************************************************)
(* Chat window state.                                                      *)
(***************************************************************************)
VARIABLES
    input_entry,       \* text of the Entry widget (sequence of characters)
    chat_text,         \* chat log: sequence of [sender, message]
    status_label,      \* text of the status label
    send_btn,          \* state of the Send button: "normal" / "disabled"
    upload_btn,        \* state of the Upload button
    uploaded_content,  \* <<>> while the attribute does not exist, else <<content>>
    threads,           \* worker thread of each request
    nreq,              \* number of worker threads started so far
    afterq,            \* callbacks scheduled with root.after(0, ...), in order
    nuploads,          \* number of successful uploads (bounds the model)
    windowOpen,        \* FALSE once on_closing destroyed the root window
    messagebox,        \* title of the modal error dialog on screen, "" when none
    last_event         \* the handler that ran last (history, for the properties)

guiVars == <<input_entry, chat_text, status_label, send_btn, upload_btn,
             uploaded_content, threads, nreq, afterq, nuploads, windowOpen, messagebox,
             last_event>>

\* the widgets and attributes of the window, without the history variable
guiState == <<input_entry, chat_text, status_label, send_btn, upload_btn,
              uploaded_content, threads, nreq, afterq, nuploads, windowOpen, messagebox>>

(***************************************************************************)
(* Start-up state: main, ensure_ollama_running, start_ollama_server.       *)
(***************************************************************************)
VARIABLES
    pc,              \* position of the start-up program
    deps_result,     \* return value of check_and_install_dependencies
    ensure_result,   \* return value of ensure_ollama_running
    sos_result,      \* return value of start_ollama_server
    attempt,         \* loop variable of the polling loop
    probes,          \* number of polling probes (GET /api/tags) made
    seen200,         \* some probe returned status 200
    proc,            \* the spawned 'ollama serve': none / running / exited / terminated
    kills,           \* number of pkill / taskkill runs
    spawns,          \* number of processes spawned
    terminates,      \* number of process.terminate() calls
    enter_pressed,   \* the user was asked to start Ollama by hand and pressed Enter
    main_msg         \* the error main printed before returning

startVars == <<pc, deps_result, ensure_result, sos_result, attempt, probes, seen200,
               proc, kills, spawns, terminates, enter_pressed, main_msg>>

startVarsButPc == <<deps_result, ensure_result, sos_result, attempt, probes, seen200,
                    proc, kills, spawns, terminates, enter_pressed>>

(***************************************************************************)
(* main after ensure_ollama_running, and the last readiness probe.         *)
(***************************************************************************)
VARIABLES
    calls,           \* the functions main has called so far, in order
    gpu_info,        \* result of check_gpu_availability
    model_name,      \* result of select_model_interactive: <<>> is None, else <<name>>
    gui_created,     \* ChatGUI(model_name, gpu_info) was constructed
    last_probe       \* outcome of the last GET /api/tags of start_ollama_server

mainVars == <<calls, gpu_info, model_name, gui_created, last_probe>>

(***************************************************************************)
(* get_recommended_models: its arguments and its result.                   *)
(***************************************************************************)
VARIABLES
    vram_gb,           \* in units of 1/UnitsPerGB GB
    ram_gb,            \* in units of 1/UnitsPerGB GB
    recommendations    \* <<>> before the call

recVars == <<vram_gb, ram_gb, recommendations>>

(***************************************************************************)
(* Model selection: get_available_models, select_model_interactive,        *)
(* install_recommended_models, install_specific_model.                     *)
(***************************************************************************)
VARIABLES
    sel_pc,          \* position of select_model_interactive
    server_models,   \* names of the models a 200 reply of /api/tags lists
    gam_attempt,     \* loop variable of get_available_models
    gam_log,         \* outcomes of the GET /api/tags requests sent, in order
    models,          \* result of get_available_models (names of the models)
    prompts,         \* number of input() prompts answered
    last_choice,     \* the last answer typed at a menu prompt
    pulls,           \* the 'ollama pull' runs: [name, returncode]
    irm_result,      \* last result of install_recommended_models: <<>> is None
    sel_how,         \* how select_model_interactive returned
    sel_result       \* its result: <<>> is None, else <<name>>

selVars == <<sel_pc, server_models, gam_attempt, gam_log, models, prompts,
             last_choice, pulls, irm_result, sel_how, sel_result>>

(***************************************************************************)
(* GPU detection: check_gpu_availability, SystemChecker.detect_vram.       *)
(***************************************************************************)
VARIABLES
    sys_platform,    \* sys.platform
    nvidia,          \* outcome of running nvidia-smi
    amd,             \* outcome of running rocm-smi
    apple,           \* outcome of running system_profiler
    gpu_result,      \* result of check_gpu_availability, "" before the call
    vram_result      \* result of detect_vram in MB, <<>> before the call

gpuVars == <<sys_platform, nvidia, amd, apple, gpu_result, vram_result>>

(***************************************************************************)
(* Preferences: ChatGUI.config and chat_config.json.                       *)
(***************************************************************************)
VARIABLES
    config,          \* self.config of the running ChatGUI
    config_file,     \* chat_config.json: [exists, corrupt, data] (see NoFile)
    written,         \* the configuration of the last successful save_config
    restarted        \* a fresh ChatGUI was built after the last save_config

cfgVars == <<config, config_file, written, restarted>>

(***************************************************************************)
(* Installation: check_and_install_dependencies, install_ollama.           *)
(***************************************************************************)
VARIABLES
    inst_env,        \* what the installers find: answers, command outcomes
    caid_result,     \* check_and_install_dependencies: "none" before the call
    caid_cmds,       \* the commands it ran, in order
    io_result,       \* install_ollama: "none" before the call
    io_cmds          \* the commands it ran, in order

instVars == <<inst_env, caid_result, caid_cmds, io_result, io_cmds>>

\* the variables outside the chat window, the start-up and the recommendations
restVars == <<selVars, gpuVars, cfgVars, instVars>>

extVars == <<mainVars, restVars>>

Requests == 1..MaxRequests

\* what the user can have typed into the input field: nothing, only
\* whitespace, or a text with whitespace around it
Inputs == {<<>>, <<" ">>, <<" ", "a", " ">>}

\* contents of the files the user can choose (an empty file included)
Contents == {<<>>, <<"x">>}

FileName == "f.txt"

PreviewLen == 200

\* str.strip(): leading and trailing whitespace removed
IsSpace(c) == c = " "

RECURSIVE lstrip(_)
lstrip(s) ==
    IF s = <<>> THEN s
    ELSE IF IsSpace(Head(s)) THEN lstrip(Tail(s)) ELSE s

RECURSIVE rstrip(_)
rstrip(s) ==
    IF s = <<>> THEN s
    ELSE IF IsSpace(s[Len(s)]) THEN rstrip(SubSeq(s, 1, Len(s) - 1)) ELSE s

strip(s) == rstrip(lstrip(s))

\* the outcomes of requests.post(..., timeout=120) and of response.json()
Outcomes ==
    { [raised |-> FALSE, status_code |-> 200, json_ok |-> TRUE,  has_response |-> TRUE,  exc |-> ""],
      [raised |-> FALSE, status_code |-> 200, json_ok |-> TRUE,  has_response |-> FALSE, exc |-> ""],
      [raised |-> FALSE, status_code |-> 200, json_ok |-> FALSE, has_response |-> FALSE, exc |-> "JSONDecodeError"],
      [raised |-> FALSE, status_code |-> 500, json_ok |-> FALSE, has_response |-> FALSE, exc |-> ""],
      [raised |-> TRUE,  status_code |-> 0,   json_ok |-> FALSE, has_response |-> FALSE, exc |-> "ConnectionError"],
      [raised |-> TRUE,  status_code |-> 0,   json_ok |-> FALSE, has_response |-> FALSE, exc |-> "ReadTimeout"] }

ResponseText == <<"hello">>

NoThread ==
    [pc |-> "none", user_input |-> <<>>, upload_at_send |-> <<>>, context |-> <<>>,
     scheduled |-> 0, displayed |-> 0]

GuiInit ==
    /\ input_entry = <<>>
    /\ chat_text = <<>>
    /\ status_label = <<"Ready">>
    /\ send_btn = "normal"
    /\ upload_btn = "normal"
    /\ uploaded_content = <<>>
    /\ threads = [r \in Requests |-> NoThread]
    /\ nreq = 0
    /\ afterq = <<>>
    /\ nuploads = 0
    /\ windowOpen = TRUE
    /\ messagebox = ""
    /\ last_event = ""

\* add_message: one entry appended to the chat log
add_message(log, sender, message) ==
    Append(log, [sender |-> sender, message |-> message])

\* the user edits the input field
TypeInput(s) ==
    /\ last_event' = "type"
    /\ windowOpen
    /\ messagebox = ""
    /\ input_entry' = s
    /\ UNCHANGED <<chat_text, status_label, send_btn, upload_btn, uploaded_content,
                   threads, nreq, afterq, nuploads, windowOpen, messagebox>>
    /\ UNCHANGED <<startVars, recVars, extVars>>

\* (variant: a blank input is cleared from the input field)
send_message_clears_blank ==
    LET user_input == strip(input_entry)
    IN  IF user_input = <<>>
        THEN /\ input_entry' = <<>>
             /\ UNCHANGED <<chat_text, status_label, send_btn, upload_btn, uploaded_content,
                            threads, nreq, afterq, nuploads, windowOpen, messagebox>>
        ELSE /\ nreq < MaxRequests
             /\ input_entry' = <<>>
             /\ chat_text' = add_message(chat_text, "You", user_input)
             /\ status_label' = <<"Thinking...">>
             /\ send_btn' = "disabled"
             /\ upload_btn' = "disabled"
             /\ nreq' = nreq + 1
             /\ threads' = [threads EXCEPT ![nreq + 1] =
                    [NoThread EXCEPT !.pc = "start",
                                     !.user_input = user_input,
                                     !.upload_at_send = uploaded_content]]
             /\ UNCHANGED <<uploaded_content, afterq, nuploads, windowOpen, messagebox>>

\* ChatGUI.send_message, the command of the Send button and the handler of
\* <Return> in the input field
send_message ==
    LET user_input == strip(input_entry)
    IN  IF user_input = <<>>
        THEN UNCHANGED guiState
        ELSE /\ nreq < MaxRequests
             /\ input_entry' = <<>>
             /\ chat_text' = add_message(chat_text, "You", user_input)
             /\ status_label' = <<"Thinking...">>
             /\ send_btn' = "disabled"
             /\ upload_btn' = "disabled"
             /\ nreq' = nreq + 1
             /\ threads' = [threads EXCEPT ![nreq + 1] =
                    [NoThread EXCEPT !.pc = "start",
                                     !.user_input = user_input,
                                     !.upload_at_send = uploaded_content]]
             /\ UNCHANGED <<uploaded_content, afterq, nuploads, windowOpen, messagebox>>

\* a click on the Send button: a disabled Tk button does not run its command
ClickSend ==
    /\ last_event' = "send_message"
    /\ windowOpen
    /\ messagebox = ""
    /\ send_btn = "normal"
    /\ send_message
    /\ UNCHANGED <<startVars, recVars, extVars>>

\* Return pressed in the input field: the binding of the Entry widget
PressReturn ==
    /\ last_event' = "send_message"
    /\ windowOpen
    /\ messagebox = ""
    /\ send_message
    /\ UNCHANGED <<startVars, recVars, extVars>>

\* (variant: an empty uploaded file counts as no file)
BuildContext_if_truthy(uploaded, user_input) ==
    IF uploaded # <<>> /\ uploaded[1] # <<>>
    THEN <<"File content: ">> \o uploaded[1] \o <<"\n\nUser question: ">> \o user_input
    ELSE user_input

\* the prompt built by process_ai_response
BuildContext(uploaded, user_input) ==
    IF uploaded # <<>>
    THEN <<"File content: ">> \o uploaded[1] \o <<"\n\nUser question: ">> \o user_input
    ELSE user_input

\* worker thread, first step: reads self.uploaded_content and sends the request
WorkerRead(r) ==
    /\ last_event' = "worker"
    /\ windowOpen
    /\ threads[r].pc = "start"
    /\ threads' = [threads EXCEPT ![r].pc = "post",
                                  ![r].context = BuildContext(uploaded_content, threads[r].user_input)]
    /\ UNCHANGED <<input_entry, chat_text, status_label, send_btn, upload_btn,
                   uploaded_content, nreq, afterq, nuploads, windowOpen, messagebox>>
    /\ UNCHANGED <<startVars, recVars, extVars>>

\* (variant: a reply with a status other than 200 is dropped)
Callbacks_drops_status(o) ==
    IF o.raised
    THEN << [fn |-> "display_error", arg |-> <<"Error: ", o.exc>>] >>
    ELSE IF o.status_code = 200
         THEN IF o.json_ok
              THEN << [fn |-> "display_ai_response",
                       arg |-> IF o.has_response THEN ResponseText
                               ELSE <<"No response received">>] >>
              ELSE << [fn |-> "display_error", arg |-> <<"Error: ", o.exc>>] >>
         ELSE << >>

\* the callbacks process_ai_response hands to root.after for an outcome of the call
Callbacks(o) ==
    IF o.raised
    THEN << [fn |-> "display_error", arg |-> <<"Error: ", o.exc>>] >>
    ELSE IF o.status_code = 200
         THEN IF o.json_ok
              THEN << [fn |-> "display_ai_response",
                       arg |-> IF o.has_response THEN ResponseText
                               ELSE <<"No response received">>] >>
              ELSE << [fn |-> "display_error", arg |-> <<"Error: ", o.exc>>] >>
         ELSE << [fn |-> "display_error", arg |-> <<"API error: ", ToString(o.status_code)>>] >>

\* an entry of Tk's callback queue: the callback, its argument, and (for the
\* properties only) the request and the outcome it belongs to
Scheduled(cbs, r, o) ==
    [i \in 1..Len(cbs) |-> [fn |-> cbs[i].fn, arg |-> cbs[i].arg, req |-> r, outcome |-> o]]

\* worker thread, second step: the call returns or raises, the result is handed over
WorkerFinish(r, o) ==
    /\ last_event' = "worker"
    /\ windowOpen
    /\ threads[r].pc = "post"
    /\ LET cbs == Callbacks(o)
       IN  /\ afterq' = afterq \o Scheduled(cbs, r, o)
           /\ threads' = [threads EXCEPT ![r].pc = "done",
                                         ![r].scheduled = @ + Len(cbs)]
    /\ UNCHANGED <<input_entry, chat_text, status_label, send_btn, upload_btn,
                   uploaded_content, nreq, nuploads, windowOpen, messagebox>>
    /\ UNCHANGED <<startVars, recVars, extVars>>

\* ChatGUI.display_ai_response
display_ai_response(response_text) ==
    /\ chat_text' = add_message(chat_text, "Agent", response_text)
    /\ status_label' = <<"Ready">>
    /\ send_btn' = "normal"
    /\ upload_btn' = "normal"

\* (variant: the error is shown as a reply of the agent)
display_error_as_agent(error_msg) ==
    /\ chat_text' = add_message(chat_text, "Agent", error_msg)
    /\ status_label' = <<"Error">>
    /\ send_btn' = "normal"
    /\ upload_btn' = "normal"

\* (variant: the Upload button stays disabled after an error)
display_error_keeps_upload_disabled(error_msg) ==
    /\ chat_text' = add_message(chat_text, "System", error_msg)
    /\ status_label' = <<"Error">>
    /\ send_btn' = "normal"
    /\ UNCHANGED upload_btn

\* ChatGUI.display_error
display_error(error_msg) ==
    /\ chat_text' = add_message(chat_text, "System", error_msg)
    /\ status_label' = <<"Error">>
    /\ send_btn' = "normal"
    /\ upload_btn' = "normal"

\* the event loop runs the oldest scheduled callback on the UI thread
RunAfter ==
    /\ last_event' = "after"
    /\ windowOpen
    /\ afterq # <<>>
    /\ LET cb == Head(afterq)
       IN  /\ IF cb.fn = "display_ai_response"
              THEN display_ai_response(cb.arg)
              ELSE display_error(cb.arg)
           /\ threads' = [threads EXCEPT ![cb.req].displayed = @ + 1]
    /\ afterq' = Tail(afterq)
    /\ UNCHANGED <<input_entry, uploaded_content, nreq, nuploads, windowOpen, messagebox>>
    /\ UNCHANGED <<startVars, recVars, extVars>>

Min(a, b) == IF a < b THEN a ELSE b

\* (variant: a failed read also sets the status label)
upload_file_failure_sets_status(path, readable, content) ==
    IF path = ""
    THEN UNCHANGED guiState
    ELSE IF readable
    THEN /\ nuploads < MaxUploads
         /\ chat_text' = add_message(chat_text, "System",
                <<"Uploaded file: ", path, "\nContent preview: ">>
                \o SubSeq(content, 1, Min(Len(content), PreviewLen)) \o <<"...">>)
         /\ uploaded_content' = <<content>>
         /\ status_label' = <<"File uploaded: ", path>>
         /\ nuploads' = nuploads + 1
         /\ UNCHANGED <<input_entry, send_btn, upload_btn, threads, nreq, afterq, windowOpen,
                        messagebox>>
    ELSE /\ messagebox' = "Upload Error"
         /\ status_label' = <<"Error">>
         /\ UNCHANGED <<input_entry, chat_text, send_btn, upload_btn, uploaded_content,
                        threads, nreq, afterq, nuploads, windowOpen>>

\* ChatGUI.upload_file; a disabled Upload button does not run it.
\* path = "" : the dialog was cancelled; readable = FALSE : open/read raised
\* and messagebox.showerror puts up its modal dialog
upload_file(path, readable, content) ==
    IF path = ""
    THEN UNCHANGED guiState
    ELSE IF readable
    THEN /\ nuploads < MaxUploads
         /\ chat_text' = add_message(chat_text, "System",
                <<"Uploaded file: ", path, "\nContent preview: ">>
                \o SubSeq(content, 1, Min(Len(content), PreviewLen)) \o <<"...">>)
         /\ uploaded_content' = <<content>>
         /\ status_label' = <<"File uploaded: ", path>>
         /\ nuploads' = nuploads + 1
         /\ UNCHANGED <<input_entry, send_btn, upload_btn, threads, nreq, afterq, windowOpen,
                        messagebox>>
    ELSE /\ messagebox' = "Upload Error"
         /\ UNCHANGED <<input_entry, chat_text, status_label, send_btn, upload_btn,
                        uploaded_content, threads, nreq, afterq, nuploads, windowOpen>>

ClickUpload ==
    /\ last_event' = "upload_file"
    /\ windowOpen
    /\ messagebox = ""
    /\ upload_btn = "normal"
    /\ \E path \in {"", FileName}, readable \in BOOLEAN, content \in Contents :
          upload_file(path, readable, content)
    /\ UNCHANGED <<startVars, recVars, extVars>>

\* the user closes the error dialog; showerror returns and upload_file ends
DismissMessagebox ==
    /\ last_event' = "upload_file"
    /\ windowOpen
    /\ messagebox # ""
    /\ messagebox' = ""
    /\ UNCHANGED <<input_entry, chat_text, status_label, send_btn, upload_btn,
                   uploaded_content, threads, nreq, afterq, nuploads, windowOpen>>
    /\ UNCHANGED <<startVars, recVars, extVars>>

\* (variant: the buttons are enabled again)
clear_chat_enables_buttons ==
    /\ last_event' = "clear_chat"
    /\ windowOpen
    /\ messagebox = ""
    /\ chat_text' = add_message(<<>>, "System", <<"Chat cleared">>)
    /\ send_btn' = "normal"
    /\ upload_btn' = "normal"
    /\ UNCHANGED <<input_entry, status_label, uploaded_content,
                   threads, nreq, afterq, nuploads, windowOpen, messagebox>>
    /\ UNCHANGED <<startVars, recVars, extVars>>

\* ChatGUI.clear_chat
clear_chat ==
    /\ last_event' = "clear_chat"
    /\ windowOpen
    /\ messagebox = ""
    /\ chat_text' = add_message(<<>>, "System", <<"Chat cleared">>)
    /\ UNCHANGED <<input_entry, status_label, send_btn, upload_btn, uploaded_content,
                   threads, nreq, afterq, nuploads, windowOpen, messagebox>>
    /\ UNCHANGED <<startVars, recVars, extVars>>

\* ChatGUI.on_closing: the root window is destroyed, mainloop returns and the
\* process ends (the worker threads are daemon threads)
on_closing ==
    /\ last_event' = "on_closing"
    /\ windowOpen
    /\ messagebox = ""
    /\ windowOpen' = FALSE
    /\ UNCHANGED <<input_entry, chat_text, status_label, send_btn, upload_btn,
                   uploaded_content, threads, nreq, afterq, nuploads, messagebox>>
    /\ UNCHANGED <<startVars, recVars, extVars>>

vars == <<guiVars, startVars, recVars, extVars>>

(***************************************************************************)
(* Start-up: main, check_and_install_dependencies, ensure_ollama_running,  *)
(* install_ollama, start_ollama_server.                                    *)
(***************************************************************************)
max_attempts == 45

Platforms == {"linux", "darwin", "win32"}

Answers == {"y", "yes", "n", ""}

\* the outcomes of requests.get("http://localhost:11434/api/tags", timeout=...)
ProbeOutcomes ==
    { [kind |-> "reply", status_code |-> 200],
      [kind |-> "reply", status_code |-> 503],
      [kind |-> "ConnectionError", status_code |-> 0],
      [kind |-> "Timeout", status_code |-> 0] }

Str(b) == IF b THEN "True" ELSE "False"

\* install_ollama: installed is the result of its own check_ollama_installed,
\* the return codes are those of curl, of the install script and of brew,
\* raised says that running a command raised (executable missing)
install_ollama(installed, platform, curl_rc, sh_rc, brew_rc, raised) ==
    IF installed THEN TRUE
    ELSE IF platform = "linux"
         THEN IF raised THEN FALSE
              ELSE IF curl_rc # 0 THEN FALSE
              ELSE sh_rc = 0
    ELSE IF platform = "darwin"
         THEN IF raised THEN FALSE ELSE brew_rc = 0
    ELSE FALSE

\* check_and_install_dependencies: its return value for the answers of the
\* user and the results of the installs
check_and_install_dependencies(missing_deps, response1, pip_ok, installed, response2, install_ok) ==
    IF missing_deps /\ response1 \in {"y", "yes"} /\ ~pip_ok THEN FALSE
    ELSE IF missing_deps /\ response1 \notin {"y", "yes"} THEN FALSE
    ELSE IF ~installed /\ response2 \in {"y", "yes"} /\ ~install_ok THEN FALSE
    ELSE IF ~installed /\ response2 \notin {"y", "yes"} THEN FALSE
    ELSE TRUE

StartInit ==
    /\ pc = "main_deps"
    /\ deps_result = "none"
    /\ ensure_result = "none"
    /\ sos_result = "none"
    /\ attempt = 0
    /\ probes = 0
    /\ seen200 = FALSE
    /\ proc = "none"
    /\ kills = 0
    /\ spawns = 0
    /\ terminates = 0
    /\ enter_pressed = FALSE
    /\ main_msg = ""

\* the start-up program after it has opened the chat window
StartIdle ==
    /\ pc = "main_run"
    /\ deps_result = "True"
    /\ ensure_result = "True"
    /\ sos_result = "True"
    /\ attempt = 0
    /\ probes = 0
    /\ seen200 = TRUE
    /\ proc = "none"
    /\ kills = 0
    /\ spawns = 0
    /\ terminates = 0
    /\ enter_pressed = FALSE
    /\ main_msg = ""

NoProbe == [kind |-> "none", status_code |-> 0]

NoRun == [kind |-> "none", returncode |-> 0, parsed |-> "none", mb |-> 0, has_apple |-> FALSE]

\* no call of select_model_interactive
SelIdle ==
    /\ sel_pc = "idle"
    /\ server_models = <<>>
    /\ gam_attempt = 0
    /\ gam_log = <<>>
    /\ models = <<>>
    /\ prompts = 0
    /\ last_choice = <<>>
    /\ pulls = <<>>
    /\ irm_result = <<>>
    /\ sel_how = ""
    /\ sel_result = <<>>

\* no GPU detection
GpuIdle ==
    /\ sys_platform = "linux"
    /\ nvidia = NoRun
    /\ amd = NoRun
    /\ apple = NoRun
    /\ gpu_result = ""
    /\ vram_result = <<>>

\* the default preferences of ChatGUI.__init__ (fonts as tuples)
DefaultConfig ==
    [user_font |-> [kind |-> "tuple", family |-> "Arial", size |-> 12],
     user_color |-> "#00ff00",
     agent_font |-> [kind |-> "tuple", family |-> "Arial", size |-> 12],
     agent_color |-> "#ff4444",
     bg_color |-> "#2b2b2b",
     text_color |-> "#ffffff"]

\* a JSON object without any of the six keys; a key that is present holds
\* <<value>>
EmptyObject ==
    [user_font |-> <<>>, user_color |-> <<>>, agent_font |-> <<>>,
     agent_color |-> <<>>, bg_color |-> <<>>, text_color |-> <<>>]

\* chat_config.json does not exist
NoFile == [exists |-> FALSE, corrupt |-> FALSE, data |-> EmptyObject]

\* a ChatGUI with the default preferences and no preference file
CfgIdle ==
    /\ config = DefaultConfig
    /\ config_file = NoFile
    /\ written = <<>>
    /\ restarted = FALSE

\* the installers' environment before any of it is looked at
NoEnv ==
    [deps |-> <<>>, response1 |-> <<>>, fail_at |-> 0, installed |-> TRUE,
     response2 |-> <<>>, installed2 |-> TRUE, platform |-> "linux",
     curl |-> "0", sh |-> "0", brew |-> "0"]

\* no installer called
InstIdle ==
    /\ inst_env = NoEnv
    /\ caid_result = "none"
    /\ caid_cmds = <<>>
    /\ io_result = "none"
    /\ io_cmds = <<>>

RestIdle == SelIdle /\ GpuIdle /\ CfgIdle /\ InstIdle

\* the results check_gpu_availability can return
GpuInfos == {"NVIDIA GPU", "AMD GPU", "Apple Silicon", "CPU Only", "Unknown (Error)"}

\* the results select_model_interactive can return: None, or a model name
\* (of the list of the server, which may hold an empty name, or of a pull)
SelectResults == {<<>>, <<"">>, <<"llama2">>}

MainInit ==
    /\ calls = <<>>
    /\ gpu_info = ""
    /\ model_name = <<>>
    /\ gui_created = FALSE
    /\ last_probe = NoProbe

\* main while the chat window runs
MainIdle ==
    /\ calls = <<"check_and_install_dependencies", "ensure_ollama_running",
                 "check_gpu_availability", "select_model_interactive", "ChatGUI">>
    /\ gpu_info = "CPU Only"
    /\ model_name = <<"llama2">>
    /\ gui_created = TRUE
    /\ last_probe = [kind |-> "reply", status_code |-> 200]

\* main: check_and_install_dependencies and the test of its result
MainCheckDeps ==
    /\ pc = "main_deps"
    /\ \E missing_deps \in BOOLEAN, response1 \in Answers, pip_ok \in BOOLEAN,
          installed \in BOOLEAN, response2 \in Answers, install_ok \in BOOLEAN :
          LET ok == check_and_install_dependencies(missing_deps, response1, pip_ok,
                                                   installed, response2, install_ok)
          IN  /\ deps_result' = Str(ok)
              /\ IF ok
                 THEN pc' = "ensure_check" /\ UNCHANGED main_msg
                 ELSE pc' = "main_exit" /\ main_msg' = "Dependency check failed. Exiting."
    /\ UNCHANGED <<ensure_result, sos_result, attempt, probes, seen200, proc, kills,
                   spawns, terminates, enter_pressed>>
    /\ UNCHANGED <<guiVars, recVars, restVars>>
    /\ calls' = Append(calls, "check_and_install_dependencies")
    /\ UNCHANGED <<gpu_info, model_name, gui_created, last_probe>>

\* ensure_ollama_running: check_ollama_installed, and install_ollama when it
\* is not installed; a failed install returns False
EnsureInstalled ==
    /\ pc = "ensure_check"
    /\ \E installed \in BOOLEAN, installed2 \in BOOLEAN, platform \in Platforms,
          curl_rc \in {0, 1}, sh_rc \in {0, 1}, brew_rc \in {0, 1}, raised \in BOOLEAN :
          IF ~installed /\ ~install_ollama(installed2, platform, curl_rc, sh_rc, brew_rc, raised)
          THEN ensure_result' = "False" /\ pc' = "main_after_ensure"
          ELSE UNCHANGED ensure_result /\ pc' = "sos_probe0"
    /\ UNCHANGED <<deps_result, sos_result, attempt, probes, seen200, proc, kills,
                   spawns, terminates, enter_pressed, main_msg>>
    /\ UNCHANGED <<guiVars, recVars, restVars>>
    /\ calls' = Append(calls, "ensure_ollama_running")
    /\ UNCHANGED <<gpu_info, model_name, gui_created, last_probe>>

\* (variant: any reply counts as ready)
ServerReady_any_reply(o) == o.kind = "reply"

\* the test of a readiness probe: a reply with status 200
ServerReady(o) == o.kind = "reply" /\ o.status_code = 200

\* (variant: the existing processes are not stopped before the spawn)
AfterInitialProbe_skips_kill(o) ==
    IF ServerReady(o) THEN "ensure_after_start" ELSE "sos_spawn"

\* start_ollama_server after the initial probe: return True, or go on to
\* stop the existing processes
AfterInitialProbe(o) ==
    IF ServerReady(o) THEN "ensure_after_start" ELSE "sos_kill"

\* start_ollama_server: the initial probe (any exception is swallowed)
SosInitialProbe ==
    /\ pc = "sos_probe0"
    /\ \E o \in ProbeOutcomes :
          /\ seen200' = (seen200 \/ (o.kind = "reply" /\ o.status_code = 200))
          /\ last_probe' = o
          /\ pc' = AfterInitialProbe(o)
          /\ IF ServerReady(o)
             THEN sos_result' = "True"
             ELSE UNCHANGED sos_result
    /\ UNCHANGED <<deps_result, ensure_result, attempt, probes, proc, kills,
                   spawns, terminates, enter_pressed, main_msg>>
    /\ UNCHANGED <<guiVars, recVars, restVars>>
    /\ UNCHANGED <<calls, gpu_info, model_name, gui_created>>

\* start_ollama_server: pkill / taskkill of existing processes (an exception,
\* such as a missing pkill, is swallowed)
SosKill ==
    /\ pc = "sos_kill"
    /\ \E raised \in BOOLEAN : kills' = IF raised THEN kills ELSE kills + 1
    /\ pc' = "sos_spawn"
    /\ UNCHANGED <<deps_result, ensure_result, sos_result, attempt, probes, seen200, proc,
                   spawns, terminates, enter_pressed, main_msg>>
    /\ UNCHANGED <<guiVars, recVars, restVars>>
    /\ UNCHANGED mainVars

\* start_ollama_server: Popen(['ollama', 'serve']); when Popen raises, the
\* outer except returns False
SosSpawn ==
    /\ pc = "sos_spawn"
    /\ \E raised \in BOOLEAN :
          IF raised
          THEN /\ sos_result' = "False" /\ pc' = "ensure_after_start"
               /\ UNCHANGED <<proc, spawns>>
          ELSE /\ proc' = "running" /\ spawns' = spawns + 1 /\ pc' = "sos_wait"
               /\ UNCHANGED sos_result
    /\ UNCHANGED <<deps_result, ensure_result, attempt, probes, seen200, kills,
                   terminates, enter_pressed, main_msg>>
    /\ UNCHANGED <<guiVars, recVars, restVars>>
    /\ UNCHANGED mainVars

\* the spawned process exits by itself
ProcExit ==
    /\ proc = "running"
    /\ pc \in {"sos_wait", "sos_poll"}
    /\ proc' = "exited"
    /\ UNCHANGED <<pc, deps_result, ensure_result, sos_result, attempt, probes, seen200,
                   kills, spawns, terminates, enter_pressed, main_msg>>
    /\ UNCHANGED <<guiVars, recVars, restVars>>
    /\ UNCHANGED mainVars

\* (variant: the exit of the process goes unnoticed)
ProcessDied_unnoticed(p) == FALSE

\* process.poll() is not None
ProcessDied(p) == p # "running"

\* start_ollama_server: process.poll() after the 5 second wait
SosCheckProcess ==
    /\ pc = "sos_wait"
    /\ IF ProcessDied(proc)
       THEN sos_result' = "False" /\ pc' = "ensure_after_start" /\ UNCHANGED attempt
       ELSE attempt' = 0 /\ pc' = "sos_poll" /\ UNCHANGED sos_result
    /\ UNCHANGED <<deps_result, ensure_result, probes, seen200, proc, kills,
                   spawns, terminates, enter_pressed, main_msg>>
    /\ UNCHANGED <<guiVars, recVars, restVars>>
    /\ UNCHANGED mainVars

\* (variant: the loop makes one iteration too many)
InLoop_one_more(i) == i <= max_attempts

\* for attempt in range(max_attempts)
InLoop(i) == i < max_attempts

\* start_ollama_server: one iteration of the polling loop
SosPoll ==
    /\ pc = "sos_poll"
    /\ InLoop(attempt)
    /\ probes' = probes + 1
    /\ \E o \in ProbeOutcomes :
          /\ seen200' = (seen200 \/ (o.kind = "reply" /\ o.status_code = 200))
          /\ last_probe' = o
          /\ IF o.kind = "reply"
             THEN IF ServerReady(o)
                  THEN sos_result' = "True" /\ pc' = "ensure_after_start" /\ UNCHANGED attempt
                  ELSE attempt' = attempt + 1 /\ UNCHANGED <<sos_result, pc>>
             ELSE IF o.kind = "ConnectionError" /\ ProcessDied(proc)
                  THEN sos_result' = "False" /\ pc' = "ensure_after_start" /\ UNCHANGED attempt
                  ELSE attempt' = attempt + 1 /\ UNCHANGED <<sos_result, pc>>
    /\ UNCHANGED <<deps_result, ensure_result, proc, kills, spawns, terminates,
                   enter_pressed, main_msg>>
    /\ UNCHANGED <<guiVars, recVars, restVars>>
    /\ UNCHANGED <<calls, gpu_info, model_name, gui_created>>

\* start_ollama_server: the loop is exhausted; communicate(timeout=1) (its
\* exception is swallowed), process.terminate(), return False
SosGiveUp ==
    /\ pc = "sos_poll"
    /\ ~InLoop(attempt)
    /\ terminates' = terminates + 1
    /\ proc' = IF proc = "running" THEN "terminated" ELSE proc
    /\ sos_result' = "False"
    /\ pc' = "ensure_after_start"
    /\ UNCHANGED <<deps_result, ensure_result, attempt, probes, seen200, kills, spawns,
                   enter_pressed, main_msg>>
    /\ UNCHANGED <<guiVars, recVars, restVars>>
    /\ UNCHANGED mainVars

\* ensure_ollama_running: start_ollama_server returned True
EnsureStartOk ==
    /\ pc = "ensure_after_start"
    /\ sos_result = "True"
    /\ ensure_result' = "True"
    /\ pc' = "main_after_ensure"
    /\ UNCHANGED <<deps_result, sos_result, attempt, probes, seen200, proc, kills,
                   spawns, terminates, enter_pressed, main_msg>>
    /\ UNCHANGED <<guiVars, recVars, restVars>>
    /\ UNCHANGED mainVars

\* ensure_ollama_running: start_ollama_server returned False; the manual
\* instructions are printed and input() waits for Enter
EnsureStartFailed ==
    /\ pc = "ensure_after_start"
    /\ sos_result = "False"
    /\ pc' = "ensure_input"
    /\ UNCHANGED <<deps_result, ensure_result, sos_result, attempt, probes, seen200, proc,
                   kills, spawns, terminates, enter_pressed, main_msg>>
    /\ UNCHANGED <<guiVars, recVars, restVars>>
    /\ UNCHANGED mainVars

\* (variant: a failed start makes ensure_ollama_running return False)
EnsurePressEnter_returns_false ==
    /\ pc = "ensure_input"
    /\ enter_pressed' = TRUE
    /\ ensure_result' = "False"
    /\ pc' = "main_after_ensure"
    /\ UNCHANGED <<deps_result, sos_result, attempt, probes, seen200, proc, kills,
                   spawns, terminates, main_msg>>
    /\ UNCHANGED <<guiVars, recVars, restVars>>
    /\ UNCHANGED mainVars

\* ensure_ollama_running: the user pressed Enter; return True
EnsurePressEnter ==
    /\ pc = "ensure_input"
    /\ enter_pressed' = TRUE
    /\ ensure_result' = "True"
    /\ pc' = "main_after_ensure"
    /\ UNCHANGED <<deps_result, sos_result, attempt, probes, seen200, proc, kills,
                   spawns, terminates, main_msg>>
    /\ UNCHANGED <<guiVars, recVars, restVars>>
    /\ UNCHANGED mainVars

\* main: the test of the result of ensure_ollama_running
MainAfterEnsure ==
    /\ pc = "main_after_ensure"
    /\ IF ensure_result = "False"
       THEN pc' = "main_exit" /\ main_msg' = "Failed to start Ollama. Exiting."
       ELSE pc' = "main_gpu" /\ UNCHANGED main_msg
    /\ UNCHANGED <<deps_result, ensure_result, sos_result, attempt, probes, seen200, proc,
                   kills, spawns, terminates, enter_pressed>>
    /\ UNCHANGED <<guiVars, recVars, restVars>>
    /\ UNCHANGED mainVars

\* main: check_gpu_availability
MainGpu ==
    /\ pc = "main_gpu"
    /\ calls' = Append(calls, "check_gpu_availability")
    /\ \E g \in GpuInfos : gpu_info' = g
    /\ pc' = "main_select"
    /\ UNCHANGED <<model_name, gui_created, last_probe>>
    /\ UNCHANGED startVarsButPc
    /\ UNCHANGED main_msg
    /\ UNCHANGED <<guiVars, recVars, restVars>>

\* (variant: the window is opened without a model)
MainSelect_ignores_none ==
    /\ pc = "main_select"
    /\ calls' = Append(calls, "select_model_interactive")
    /\ \E m \in SelectResults :
          /\ model_name' = m
          /\ pc' = "main_gui" /\ UNCHANGED main_msg
    /\ UNCHANGED <<gpu_info, gui_created, last_probe>>
    /\ UNCHANGED startVarsButPc
    /\ UNCHANGED <<guiVars, recVars, restVars>>

\* main: select_model_interactive and the test `if not model_name`
MainSelect ==
    /\ pc = "main_select"
    /\ calls' = Append(calls, "select_model_interactive")
    /\ \E m \in SelectResults :
          /\ model_name' = m
          /\ IF m = <<>> \/ m = <<"">>
             THEN pc' = "main_exit" /\ main_msg' = "No model selected. Exiting."
             ELSE pc' = "main_gui" /\ UNCHANGED main_msg
    /\ UNCHANGED <<gpu_info, gui_created, last_probe>>
    /\ UNCHANGED startVarsButPc
    /\ UNCHANGED <<guiVars, recVars, restVars>>

\* main: ChatGUI(model_name, gpu_info); an exception of the constructor is
\* caught and reported
MainGui ==
    /\ pc = "main_gui"
    /\ calls' = Append(calls, "ChatGUI")
    /\ \E raised \in BOOLEAN :
          IF raised
          THEN /\ pc' = "main_exit" /\ main_msg' = "Failed to start GUI"
               /\ UNCHANGED gui_created
          ELSE /\ pc' = "main_run" /\ gui_created' = TRUE
               /\ UNCHANGED main_msg
    /\ UNCHANGED <<gpu_info, model_name, last_probe>>
    /\ UNCHANGED startVarsButPc
    /\ UNCHANGED <<guiVars, recVars, restVars>>

StartNext ==
    \/ MainGpu
    \/ MainSelect
    \/ MainGui
    \/ MainCheckDeps
    \/ EnsureInstalled
    \/ SosInitialProbe
    \/ SosKill
    \/ SosSpawn
    \/ ProcExit
    \/ SosCheckProcess
    \/ SosPoll
    \/ SosGiveUp
    \/ EnsureStartOk
    \/ EnsureStartFailed
    \/ EnsurePressEnter
    \/ MainAfterEnsure

(***************************************************************************)
(* Properties of the start-up.                                             *)
(***************************************************************************)
SosReturned == sos_result # "none"

\* C7: the polling loop makes at most 45 probes; when no polling probe
\* returned 200 the function returns False and does not leave the spawned
\* process running, and when the loop was exhausted it called terminate().
C7_PollingGivesUp ==
    /\ probes <= max_attempts
    /\ (SosReturned /\ spawns = 1 /\ ~seen200) =>
           (sos_result = "False" /\ proc # "running")
    /\ (SosReturned /\ attempt = max_attempts) =>
           (sos_result = "False" /\ probes = max_attempts /\ terminates = 1)

\* 45 probes failed while the process kept running: it was terminated
C7_Witness ==
    /\ SosReturned /\ sos_result = "False"
    /\ probes = max_attempts /\ attempt = max_attempts
    /\ proc = "terminated" /\ terminates = 1

\* C8: start_ollama_server returns True exactly when some probe (the initial
\* one or a polling probe) returned status 200, and False on every other path.
C8_TrueOnlyAfter200 ==
    SosReturned =>
        /\ sos_result \in {"True", "False"}
        /\ sos_result = "True" <=> seen200

\* the server answered 200 after failed polling probes
C8_Witness ==
    sos_result = "True" /\ spawns = 1 /\ probes > 1 /\ seen200

\* C9 as stated: ensure_ollama_running returns True only when
\* start_ollama_server returned True, and False when the server could not
\* be started.
C9_TrueOnlyIfReachable ==
    ensure_result # "none" =>
        (ensure_result = "True" <=> sos_result = "True")

\* C9 as amended: ensure_ollama_running returns False only when Ollama is
\* not installed and install_ollama failed (start_ollama_server is then not
\* called), which is the only case in which main prints 'Failed to start
\* Ollama. Exiting.'; when start_ollama_server returned False it waits
\* for Enter and returns True, and main goes on.
C9_EnsureReturn ==
    /\ ensure_result = "False" => sos_result = "none"
    /\ ensure_result = "True" =>
           (sos_result = "True" \/ (sos_result = "False" /\ enter_pressed))
    /\ (sos_result = "False" /\ pc \in {"main_after_ensure", "main_gpu", "main_exit"}) =>
           ensure_result = "True"
    /\ main_msg = "Failed to start Ollama. Exiting." <=>
           (pc = "main_exit" /\ ensure_result = "False")
    /\ pc = "main_gpu" => ensure_result = "True"

\* main goes on to the GPU check although the server could not be started
C9_Witness ==
    pc = "main_gpu" /\ sos_result = "False" /\ enter_pressed /\ ensure_result = "True"

Is200(o) == o.kind = "reply" /\ o.status_code = 200

\* C18: after an initial probe answered with 200 start_ollama_server has
\* returned True with nothing killed and nothing spawned; a kill happens
\* only right after an initial probe that was not answered with 200, a spawn
\* only right after the kill step, and at most one process is spawned.
C18_RunningServerLeftAlone ==
    /\ [] ( /\ (probes = 0 /\ Is200(last_probe)) =>
                  (kills = 0 /\ spawns = 0 /\ sos_result = "True" /\ proc = "none")
            /\ spawns <= 1
            /\ kills <= 1 )
    /\ [][ /\ pc' = "sos_kill" => (pc = "sos_probe0" /\ ~Is200(last_probe'))
           /\ kills' # kills => pc = "sos_kill"
           /\ pc' = "sos_spawn" => pc = "sos_kill"
           /\ spawns' # spawns => (pc = "sos_spawn" /\ spawns = 0 /\ spawns' = 1)
           /\ (pc = "sos_probe0" /\ Is200(last_probe')) =>
                 (pc' = "ensure_after_start" /\ sos_result' = "True")
         ]_vars

\* the server was already running
C18_Witness ==
    /\ pc = "ensure_after_start"
    /\ probes = 0 /\ Is200(last_probe)
    /\ sos_result = "True" /\ kills = 0 /\ spawns = 0

\* C19: a process found exited after the 5 second wait gives False without
\* any probe; a polling probe that fails with a connection error while the
\* process has exited gives False at once: the attempt counter stays and
\* the loop is left without terminate().
C19_StopsWhenProcessDies ==
    /\ [] ( pc = "sos_wait" => probes = 0 )
    /\ [][ /\ (pc = "sos_wait" /\ pc' # pc /\ proc # "running") =>
                 (sos_result' = "False" /\ pc' = "ensure_after_start" /\ probes' = 0)
           /\ (pc = "sos_poll" /\ probes' = probes + 1
                 /\ last_probe'.kind = "ConnectionError" /\ proc # "running") =>
                 (/\ sos_result' = "False" /\ pc' = "ensure_after_start"
                  /\ attempt' = attempt /\ terminates' = terminates)
         ]_vars

\* the process died during polling and the second probe noticed it
C19_Witness ==
    /\ pc = "ensure_after_start"
    /\ sos_result = "False"
    /\ proc = "exited"
    /\ probes = 2 /\ attempt = 1
    /\ last_probe.kind = "ConnectionError"
    /\ terminates = 0

MainSequence ==
    <<"check_and_install_dependencies", "ensure_ollama_running",
      "check_gpu_availability", "select_model_interactive", "ChatGUI">>

IsPrefix(a, b) == Len(a) <= Len(b) /\ a = SubSeq(b, 1, Len(a))

Called(f) == \E i \in 1..Len(calls) : calls[i] = f

\* C11: main constructs ChatGUI only after check_and_install_dependencies
\* returned True, then ensure_ollama_running returned True, then
\* select_model_interactive returned a non-empty name, in this order; when a
\* step fails main returns without the later steps and without a window.
C11_WindowOnlyAfterStartup ==
    /\ IsPrefix(calls, MainSequence)
    /\ Called("ensure_ollama_running") => deps_result = "True"
    /\ Called("check_gpu_availability") => ensure_result = "True"
    /\ Called("ChatGUI") =>
           (model_name # <<>> /\ model_name # <<"">> /\ Called("select_model_interactive"))
    /\ gui_created => Called("ChatGUI")
    /\ deps_result = "False" =>
           (calls = SubSeq(MainSequence, 1, 1) /\ pc = "main_exit")
    /\ (ensure_result = "False" /\ pc # "main_after_ensure") =>
           (calls = SubSeq(MainSequence, 1, 2) /\ pc = "main_exit")
    /\ (Called("select_model_interactive") /\ model_name \in {<<>>, <<"">>}) =>
           (calls = SubSeq(MainSequence, 1, 4) /\ pc = "main_exit")
    /\ pc = "main_exit" => (~gui_created /\ main_msg # "")

\* the window is open after the three steps succeeded
C11_Witness ==
    /\ gui_created /\ pc = "main_run" /\ calls = MainSequence
    /\ model_name = <<"llama2">>

(***************************************************************************)
(* get_recommended_models.  Memory sizes are counted in units of           *)
(* 1/UnitsPerGB GB, model sizes (size_gb) in tenths of a GB.               *)
(***************************************************************************)
GB(n) == n * UnitsPerGB

HighTier ==
    << [name |-> "llama2", size_gb |-> 38, description |-> "Good balance of performance and quality"],
       [name |-> "mistral", size_gb |-> 41, description |-> "Excellent for coding and reasoning"],
       [name |-> "codellama:13b", size_gb |-> 73, description |-> "Specialized for programming"] >>

MediumTier ==
    << [name |-> "llama2:7b", size_gb |-> 38, description |-> "Standard 7B model"],
       [name |-> "gemma:7b", size_gb |-> 48, description |-> "Google's efficient model"],
       [name |-> "mistral", size_gb |-> 41, description |-> "Fast and capable"] >>

\* (variant: the light tier holds a model larger than the medium tier's)
LightTier_with_large_model ==
    << [name |-> "llama2:3b", size_gb |-> 19, description |-> "Lightweight but capable"],
       [name |-> "gemma:2b", size_gb |-> 16, description |-> "Very fast, minimal resources"],
       [name |-> "phi", size_gb |-> 61, description |-> "Microsoft's small but smart model"] >>

LightTier ==
    << [name |-> "llama2:3b", size_gb |-> 19, description |-> "Lightweight but capable"],
       [name |-> "gemma:2b", size_gb |-> 16, description |-> "Very fast, minimal resources"],
       [name |-> "phi", size_gb |-> 16, description |-> "Microsoft's small but smart model"] >>

MinimalTier ==
    << [name |-> "tinyllama", size_gb |-> 5, description |-> "Smallest usable model"],
       [name |-> "phi:mini", size_gb |-> 14, description |-> "Mini version of Phi"],
       [name |-> "gemma:2b", size_gb |-> 16, description |-> "Efficient 2B model"] >>

\* (variant: the high tier starts above 8 GB)
get_recommended_models_above_8(vram, ram) ==
    <<>> \o (IF vram > GB(8) THEN HighTier
            ELSE IF vram >= GB(4) THEN MediumTier
            ELSE IF vram > 0 \/ ram >= GB(8) THEN LightTier
            ELSE MinimalTier)

get_recommended_models(vram, ram) ==
    <<>> \o (IF vram >= GB(8) THEN HighTier
            ELSE IF vram >= GB(4) THEN MediumTier
            ELSE IF vram > 0 \/ ram >= GB(8) THEN LightTier
            ELSE MinimalTier)

VramRange == (-GB(1))..GB(MaxVramGB)

RamRange == 0..GB(MaxRamGB)

RecInit ==
    /\ vram_gb \in VramRange
    /\ ram_gb \in RamRange
    /\ recommendations = <<>>

\* no call of get_recommended_models
RecIdle ==
    /\ vram_gb = 0
    /\ ram_gb = 0
    /\ recommendations = <<>>

\* a call get_recommended_models(vram_gb, ram_gb)
CallGetRecommended ==
    /\ recommendations = <<>>
    /\ recommendations' = get_recommended_models(vram_gb, ram_gb)
    /\ UNCHANGED <<vram_gb, ram_gb>>
    /\ UNCHANGED <<guiVars, startVars, extVars>>

RecNext == CallGetRecommended

InitRec == GuiInit /\ StartIdle /\ MainIdle /\ RestIdle /\ RecInit

SpecRec == InitRec /\ [][RecNext]_vars

Names(recs) == [i \in 1..Len(recs) |-> recs[i].name]

\* the tier the thresholds select
ExpectedTier(vram, ram) ==
    IF vram >= GB(8) THEN "high"
    ELSE IF GB(4) <= vram /\ vram < GB(8) THEN "medium"
    ELSE IF vram < GB(4) /\ (vram > 0 \/ ram >= GB(8)) THEN "light"
    ELSE "minimal"

TierNames(tier) ==
    CASE tier = "high" -> <<"llama2", "mistral", "codellama:13b">>
      [] tier = "medium" -> <<"llama2:7b", "gemma:7b", "mistral">>
      [] tier = "light" -> <<"llama2:3b", "gemma:2b", "phi">>
      [] tier = "minimal" -> <<"tinyllama", "phi:mini", "gemma:2b">>

\* C10: get_recommended_models returns exactly the three models of the tier
\* the VRAM thresholds select (high from 8 GB, medium from 4 GB, light below
\* 4 GB with vram > 0 or ram >= 8 GB, minimal otherwise), and with vram > 0
\* the result does not depend on the RAM.
C10_TierMatchesThresholds ==
    recommendations # <<>> =>
        /\ Len(recommendations) = 3
        /\ Names(recommendations) = TierNames(ExpectedTier(vram_gb, ram_gb))
        /\ (vram_gb <= 0 /\ ram_gb < GB(8)) <=> Names(recommendations) = TierNames("minimal")
        /\ vram_gb > 0 =>
               \A other_ram \in RamRange :
                   get_recommended_models(vram_gb, other_ram) = recommendations

\* the size (tenths of a GB) of the largest model of a recommendation list
LargestSize(recs) ==
    CHOOSE m \in {recs[i].size_gb : i \in 1..Len(recs)} :
        \A i \in 1..Len(recs) : recs[i].size_gb <= m

\* C26: with the RAM fixed, more VRAM never gives a smaller largest
\* recommended model; with the VRAM fixed, more RAM never does.
C26_MonotoneInResources ==
    recommendations # <<>> =>
        /\ \A more_vram \in VramRange :
              more_vram >= vram_gb =>
                 LargestSize(get_recommended_models(more_vram, ram_gb))
                    >= LargestSize(recommendations)
        /\ \A more_ram \in RamRange :
              more_ram >= ram_gb =>
                 LargestSize(get_recommended_models(vram_gb, more_ram))
                    >= LargestSize(recommendations)

\* the light tier, which has larger tiers above it and a smaller one below
C26_Witness ==
    /\ recommendations # <<>>
    /\ vram_gb = GB(3) /\ ram_gb = GB(4)
    /\ LargestSize(recommendations) = 19
    /\ LargestSize(get_recommended_models(GB(4), ram_gb)) = 48
    /\ LargestSize(get_recommended_models(0, ram_gb)) = 16

\* exactly 8 GB of VRAM selects the high tier
C10_Witness ==
    /\ vram_gb = GB(8)
    /\ recommendations # <<>>
    /\ Names(recommendations) = TierNames("high")

(***************************************************************************)
(* Model selection: get_available_models, select_model_interactive,        *)
(* install_recommended_models, install_specific_model.                     *)
(***************************************************************************)
max_retries == 3

\* the outcomes of requests.get(".../api/tags", timeout=30) and response.json()
GamOutcomes ==
    { [kind |-> "reply", status_code |-> 200, json_ok |-> TRUE],
      [kind |-> "reply", status_code |-> 200, json_ok |-> FALSE],
      [kind |-> "reply", status_code |-> 500, json_ok |-> FALSE],
      [kind |-> "ConnectionError", status_code |-> 0, json_ok |-> FALSE],
      [kind |-> "Timeout", status_code |-> 0, json_ok |-> FALSE],
      [kind |-> "Exception", status_code |-> 0, json_ok |-> FALSE] }

\* the model lists the server can hold
ModelLists == {<<>>, <<"llama2">>, <<"llama2", "phi">>}

\* what the user can type at a menu prompt
Choices ==
    { <<>>, <<"x">>, <<"-", "1">>, <<"0">>, <<"1">>, <<"2">>, <<"3">>, <<"4">>,
      <<"5">>, <<"6">>, <<" ", "1", " ">>, <<"0", "1">>, <<"+", "2">>, <<"0", "5">> }

\* what last_choice records when Ctrl-C was pressed at the prompt
Interrupt == <<"^C">>

\* what the user can type as a manual model name (a name is one element)
ManualNames == {<<>>, <<" ">>, <<" ", "orca-mini", " ">>}

\* the outcomes of Popen(['ollama', 'pull', name]) and of the wait for it
PullOutcomes ==
    { [raised |-> FALSE, returncode |-> 0],
      [raised |-> FALSE, returncode |-> 1],
      [raised |-> TRUE, returncode |-> 0] }

Digits == {"0", "1", "2", "3", "4", "5", "6", "7", "8", "9"}

DigitVal(c) ==
    CASE c = "0" -> 0 [] c = "1" -> 1 [] c = "2" -> 2 [] c = "3" -> 3 [] c = "4" -> 4
      [] c = "5" -> 5 [] c = "6" -> 6 [] c = "7" -> 7 [] c = "8" -> 8 [] c = "9" -> 9

AllDigits(s) == s # <<>> /\ \A i \in 1..Len(s) : s[i] \in Digits

\* int(choice) does not raise ValueError
IsInt(s) == s # <<>> /\ AllDigits(IF Head(s) \in {"-", "+"} THEN Tail(s) ELSE s)

RECURSIVE ParseNat(_)
ParseNat(s) ==
    IF s = <<>> THEN 0
    ELSE 10 * ParseNat(SubSeq(s, 1, Len(s) - 1)) + DigitVal(s[Len(s)])

\* int(choice)
ParseInt(s) ==
    IF Head(s) = "-" THEN 0 - ParseNat(Tail(s))
    ELSE IF Head(s) = "+" THEN ParseNat(Tail(s))
    ELSE ParseNat(s)

SelInit ==
    /\ sel_pc = "gam"
    /\ server_models \in ModelLists
    /\ gam_attempt = 0
    /\ gam_log = <<>>
    /\ models = <<>>
    /\ prompts = 0
    /\ last_choice = <<>>
    /\ pulls = <<>>
    /\ irm_result = <<>>
    /\ sel_how = ""
    /\ sel_result = <<>>

\* the system info install_recommended_models works with
SelRecInit ==
    /\ vram_gb \in {0, GB(4), GB(8)}
    /\ ram_gb \in {GB(4), GB(8)}
    /\ recommendations = <<>>

\* (variant: every failed attempt but the last is retried)
GamRetries_any_failure(o, i) ==
    ~(o.kind = "reply" /\ o.status_code = 200 /\ o.json_ok) /\ i < max_retries - 1

\* get_available_models: the attempt is repeated (continue)
GamRetries(o, i) ==
    o.kind \in {"ConnectionError", "Timeout"} /\ i < max_retries - 1

\* get_available_models: one iteration of the loop; after it returned,
\* select_model_interactive tests `if not models`
GamAttempt ==
    /\ sel_pc = "gam"
    /\ gam_attempt < max_retries
    /\ \E o \in GamOutcomes :
          /\ gam_log' = Append(gam_log, o)
          /\ IF o.kind = "reply" /\ o.status_code = 200 /\ o.json_ok
             THEN /\ models' = server_models
                  /\ sel_pc' = IF server_models = <<>> THEN "irm" ELSE "menu"
                  /\ UNCHANGED gam_attempt
             ELSE IF GamRetries(o, gam_attempt) /\ gam_attempt + 1 < max_retries
                  THEN /\ gam_attempt' = gam_attempt + 1
                       /\ UNCHANGED <<models, sel_pc>>
                  ELSE /\ models' = <<>>
                       /\ sel_pc' = "irm"
                       /\ UNCHANGED gam_attempt
    /\ UNCHANGED <<server_models, prompts, last_choice, pulls, irm_result, sel_how, sel_result>>
    /\ UNCHANGED <<guiVars, startVars, mainVars, recVars, gpuVars, cfgVars, instVars>>

\* (variant: the name is returned whatever the exit code)
install_specific_model_any_code(name, o) ==
    IF o.raised THEN <<>> ELSE <<name>>

\* install_specific_model: the name when 'ollama pull' exited with code 0,
\* None (<<>>) when it exited with another code or could not be run
install_specific_model(name, o) ==
    IF o.raised THEN <<>>
    ELSE IF o.returncode = 0 THEN <<name>> ELSE <<>>

\* select_model_interactive: one prompt of the menu of local models.
\* interrupt: Ctrl-C at the prompt
MenuChoice ==
    /\ sel_pc = "menu"
    /\ prompts < MaxPrompts
    /\ prompts' = prompts + 1
    /\ \E raw \in Choices, interrupt \in BOOLEAN :
          LET choice == strip(raw)
              index == ParseInt(choice) - 1
          IN  IF interrupt
              THEN /\ sel_pc' = "done" /\ sel_how' = "interrupt" /\ sel_result' = <<>>
                   /\ last_choice' = Interrupt
              ELSE /\ last_choice' = choice
                   /\ IF choice = <<>> \/ ~IsInt(choice)
                      THEN UNCHANGED <<sel_pc, sel_how, sel_result>>
                      ELSE IF 0 <= index /\ index < Len(models)
                      THEN /\ sel_pc' = "done" /\ sel_how' = "list"
                           /\ sel_result' = <<models[index + 1]>>
                      ELSE IF index = Len(models)
                      THEN sel_pc' = "irm" /\ UNCHANGED <<sel_how, sel_result>>
                      ELSE IF index = Len(models) + 1
                      THEN sel_pc' = "done" /\ sel_how' = "exit" /\ sel_result' = <<>>
                      ELSE UNCHANGED <<sel_pc, sel_how, sel_result>>
    /\ UNCHANGED <<server_models, gam_attempt, gam_log, models, pulls, irm_result>>
    /\ UNCHANGED <<guiVars, startVars, mainVars, recVars, gpuVars, cfgVars, instVars>>

\* select_model_interactive after install_recommended_models returned v:
\* without local models v is returned; with local models a name is returned
\* and None goes back to the menu
AfterInstall(v) ==
    /\ irm_result' = v
    /\ IF v # <<>>
       THEN sel_pc' = "done" /\ sel_how' = "pull" /\ sel_result' = v
       ELSE IF models = <<>>
       THEN sel_pc' = "done" /\ sel_how' = "no_install" /\ sel_result' = <<>>
       ELSE sel_pc' = "menu" /\ UNCHANGED <<sel_how, sel_result>>

\* (variant: every spelling of the number 5 skips)
IsSkip_by_value(choice) == IsInt(choice) /\ ParseInt(choice) = 5

\* install_recommended_models: choice == "5"
IsSkip(choice) == choice = <<"5">>

\* install_recommended_models: the recommendations for the system and one
\* prompt of its menu (1-3 a recommendation, 4 manual entry, 5 skip)
IrmChoice ==
    /\ sel_pc = "irm"
    /\ prompts < MaxPrompts
    /\ prompts' = prompts + 1
    /\ recommendations' = get_recommended_models(vram_gb, ram_gb)
    /\ \E raw \in Choices, interrupt \in BOOLEAN :
          LET choice == strip(raw)
              index == ParseInt(choice) - 1
          IN  IF interrupt
              THEN AfterInstall(<<>>) /\ last_choice' = Interrupt /\ UNCHANGED pulls
              ELSE /\ last_choice' = choice
                   /\ IF IsSkip(choice)
                      THEN AfterInstall(<<>>) /\ UNCHANGED pulls
                      ELSE IF choice = <<"4">>
                      THEN \E manual \in ManualNames :
                              LET model == strip(manual)
                              IN  IF model # <<>>
                                  THEN \E o \in PullOutcomes :
                                          /\ pulls' = Append(pulls, [name |-> model[1],
                                                                     raised |-> o.raised,
                                                                     returncode |-> o.returncode])
                                          /\ AfterInstall(install_specific_model(model[1], o))
                                  ELSE UNCHANGED <<pulls, irm_result, sel_pc, sel_how, sel_result>>
                      ELSE IF ~IsInt(choice)
                      THEN UNCHANGED <<pulls, irm_result, sel_pc, sel_how, sel_result>>
                      ELSE IF 0 <= index /\ index < Len(recommendations')
                      THEN \E o \in PullOutcomes :
                              /\ pulls' = Append(pulls, [name |-> recommendations'[index + 1].name,
                                                         raised |-> o.raised,
                                                         returncode |-> o.returncode])
                              /\ AfterInstall(install_specific_model(recommendations'[index + 1].name, o))
                      ELSE UNCHANGED <<pulls, irm_result, sel_pc, sel_how, sel_result>>
    /\ UNCHANGED <<server_models, gam_attempt, gam_log, models, vram_gb, ram_gb>>
    /\ UNCHANGED <<guiVars, startVars, mainVars, gpuVars, cfgVars, instVars>>

SelNext ==
    \/ GamAttempt
    \/ MenuChoice
    \/ IrmChoice

InitSelect == GuiInit /\ StartIdle /\ MainIdle /\ GpuIdle /\ CfgIdle /\ InstIdle /\ SelInit /\ SelRecInit

SpecSelect == InitSelect /\ [][SelNext]_vars

GamReturned == sel_pc # "gam" /\ sel_pc # "idle"

GamSuccess(o) == o.kind = "reply" /\ o.status_code = 200 /\ o.json_ok

\* C12: get_available_models sends at most 3 requests; every request but
\* the last one ended in a connection error or a timeout; a non-200 status
\* or another exception is the last request; it returns the model list of
\* the 200 reply and the empty list on every failure.
C12_FixedRetryLoop ==
    /\ Len(gam_log) <= max_retries
    /\ \A i \in 1..(Len(gam_log) - 1) : gam_log[i].kind \in {"ConnectionError", "Timeout"}
    /\ GamReturned =>
          /\ gam_log # <<>>
          /\ LET last == gam_log[Len(gam_log)]
             IN  /\ GamSuccess(last) => models = server_models
                 /\ ~GamSuccess(last) => models = <<>>
                 /\ last.kind \in {"ConnectionError", "Timeout"} => Len(gam_log) = max_retries
    /\ ~GamReturned =>
          \A i \in 1..Len(gam_log) : gam_log[i].kind \in {"ConnectionError", "Timeout"}

\* the third request is answered after a connection error and a timeout
C12_Witness ==
    /\ GamReturned
    /\ Len(gam_log) = max_retries
    /\ gam_log[1].kind = "ConnectionError" /\ gam_log[2].kind = "Timeout"
    /\ GamSuccess(gam_log[3])
    /\ models = <<"llama2", "phi">>

SelReturned == sel_pc = "done"

LastPull == pulls[Len(pulls)]

\* an answer of the menu of local models that selects nothing
InvalidMenuAnswer(c) ==
    \/ ~IsInt(c)
    \/ ParseInt(c) < 1
    \/ ParseInt(c) > Len(models) + 2

\* C20: select_model_interactive returns None, or the name of the listed
\* model chosen by a number in 1..len(models), or a name whose pull exited
\* with code 0; install_specific_model yields the name exactly when the exit
\* code is 0; with local models an invalid answer or an install that gave
\* None prompts again, without local models such an install returns None.
C20_NoneOrUsableName ==
    /\ [] ( SelReturned =>
              \/ sel_result = <<>>
              \/ /\ sel_how = "list"
                 /\ IsInt(last_choice)
                 /\ ParseInt(last_choice) \in 1..Len(models)
                 /\ sel_result = <<models[ParseInt(last_choice)]>>
              \/ /\ sel_how = "pull"
                 /\ pulls # <<>>
                 /\ LastPull = [name |-> sel_result[1], raised |-> FALSE, returncode |-> 0] )
    /\ [][ /\ Len(pulls') > Len(pulls) =>
                (irm_result' = IF ~pulls'[Len(pulls')].raised /\ pulls'[Len(pulls')].returncode = 0
                               THEN <<pulls'[Len(pulls')].name>> ELSE <<>>)
           /\ (sel_pc = "menu" /\ prompts' > prompts /\ last_choice' # Interrupt
                 /\ InvalidMenuAnswer(last_choice')) =>
                (sel_pc' = "menu" /\ sel_result' = sel_result)
           /\ (sel_pc = "irm" /\ sel_pc' # "irm" /\ irm_result' = <<>>) =>
                IF models = <<>>
                THEN sel_pc' = "done" /\ sel_result' = <<>>
                ELSE sel_pc' = "menu"
         ]_vars

\* a model was chosen from the menu of local models after an invalid answer
C20_Witness ==
    /\ SelReturned /\ sel_how = "list" /\ prompts = 2
    /\ last_choice = <<"2">> /\ sel_result = <<"phi">>

(***************************************************************************)
(* Preferences: load_config, save_config, apply_config.                    *)
(***************************************************************************)
Keys == DOMAIN DefaultConfig

FontKeys == {"user_font", "agent_font"}

\* the (family, size) pairs, colours and backgrounds offered by open_config
FontChoices ==
    { [kind |-> "tuple", family |-> "Arial", size |-> 12],
      [kind |-> "tuple", family |-> "Impact", size |-> 24] }

ColorChoices == {"#00ff00", "#ff4444"}

BgChoices == {"#2b2b2b", "#000000"}

\* the outcomes of save_config: written, open() raised, the write raised
SaveOutcomes == {"ok", "open_fails", "write_fails"}

\* json.dump followed by json.load: a tuple comes back as a list
JsonRoundTrip(v) == IF v.kind = "tuple" THEN [v EXCEPT !.kind = "list"] ELSE v

\* the JSON object json.dump(self.config) writes
JsonDump(cfg) ==
    [k \in Keys |-> <<IF k \in FontKeys THEN JsonRoundTrip(cfg[k]) ELSE cfg[k]>>]

\* (variant: the fonts of the file are ignored)
load_config_ignores_fonts(cfg, file) ==
    IF file.exists /\ ~file.corrupt
    THEN [k \in Keys |-> IF file.data[k] # <<>> /\ k \notin FontKeys
                         THEN file.data[k][1] ELSE cfg[k]]
    ELSE cfg

\* ChatGUI.load_config: self.config.update(saved_config); a missing or
\* unreadable file leaves self.config as it is
load_config(cfg, file) ==
    IF file.exists /\ ~file.corrupt
    THEN [k \in Keys |-> IF file.data[k] # <<>> THEN file.data[k][1] ELSE cfg[k]]
    ELSE cfg

\* ChatGUI.save_config
save_config(cfg, file, outcome) ==
    CASE outcome = "ok" -> [exists |-> TRUE, corrupt |-> FALSE, data |-> JsonDump(cfg)]
      [] outcome = "open_fails" -> file
      [] outcome = "write_fails" -> [exists |-> TRUE, corrupt |-> TRUE, data |-> EmptyObject]

\* the preference files a ChatGUI can find at its first start
InitialFiles ==
    { NoFile,
      [exists |-> TRUE, corrupt |-> TRUE, data |-> EmptyObject],
      [exists |-> TRUE, corrupt |-> FALSE,
       data |-> [EmptyObject EXCEPT !.user_color = <<"#4444ff">>]],
      [exists |-> TRUE, corrupt |-> FALSE,
       data |-> [EmptyObject EXCEPT
                    !.agent_font = <<[kind |-> "list", family |-> "Impact", size |-> 24]>>,
                    !.text_color = <<"#000000">>]] }

\* ChatGUI.__init__ of the first start
CfgInit ==
    /\ config_file \in InitialFiles
    /\ config = load_config(DefaultConfig, config_file)
    /\ written = <<>>
    /\ restarted = TRUE

\* open_config.apply_config: the five keys are updated and save_config runs
apply_config ==
    /\ \E user_font \in FontChoices, user_color \in ColorChoices,
          agent_font \in FontChoices, agent_color \in ColorChoices,
          bg_color \in BgChoices, outcome \in SaveOutcomes :
          /\ config' = [config EXCEPT !.user_font = user_font,
                                      !.user_color = user_color,
                                      !.agent_font = agent_font,
                                      !.agent_color = agent_color,
                                      !.bg_color = bg_color]
          /\ config_file' = save_config(config', config_file, outcome)
          /\ written' = CASE outcome = "ok" -> <<config'>>
                          [] outcome = "open_fails" -> written
                          [] outcome = "write_fails" -> <<>>
    /\ restarted' = FALSE
    /\ UNCHANGED <<guiVars, startVars, mainVars, recVars, selVars, gpuVars, instVars>>

\* the program is started again: ChatGUI.__init__ sets the defaults and
\* calls load_config
Restart ==
    /\ config' = load_config(DefaultConfig, config_file)
    /\ restarted' = TRUE
    /\ UNCHANGED <<config_file, written>>
    /\ UNCHANGED <<guiVars, startVars, mainVars, recVars, selVars, gpuVars, instVars>>

CfgNext ==
    \/ apply_config
    \/ Restart

InitConfig == GuiInit /\ StartIdle /\ MainIdle /\ SelIdle /\ GpuIdle /\ InstIdle /\ RecIdle /\ CfgInit

SpecConfig == InitConfig /\ [][CfgNext]_vars

\* same font family and size, or same colour
SameSetting(k, v, w) ==
    IF k \in FontKeys THEN v.family = w.family /\ v.size = w.size ELSE v = w

KeyInFile(k) == config_file.exists /\ ~config_file.corrupt /\ config_file.data[k] # <<>>

\* C15: in a fresh ChatGUI every key has the family, size and colour of the
\* configuration last written by save_config, and a key absent from the
\* file (or every key, without a readable file) has its default value.
C15_PreferencesSurviveRestart ==
    restarted =>
        /\ written # <<>> => \A k \in Keys : SameSetting(k, config[k], written[1][k])
        /\ \A k \in Keys : ~KeyInFile(k) => config[k] = DefaultConfig[k]
        /\ \A k \in Keys : KeyInFile(k) => SameSetting(k, config[k], config_file.data[k][1])

\* non-default fonts and colours came back after a restart
C15_Witness ==
    /\ restarted
    /\ written # <<>>
    /\ config.user_font = [kind |-> "list", family |-> "Impact", size |-> 24]
    /\ config.agent_color = "#00ff00"
    /\ config.bg_color = "#000000"

(***************************************************************************)
(* GPU detection: check_gpu_availability, SystemChecker.detect_vram.       *)
(***************************************************************************)
\* the memory sizes (MB) a tool can print
MBs == {0, 2048, 4096}

\* the outcomes of subprocess.run for a vendor tool: the executable is
\* missing (FileNotFoundError), it runs longer than timeout=10
\* (TimeoutExpired), or it exits; parsed tells what the parsing code of
\* detect_vram finds in stdout, has_apple whether stdout contains 'Apple'
ToolRuns ==
    { [kind |-> "missing", returncode |-> 0, parsed |-> "empty", mb |-> 0, has_apple |-> FALSE],
      [kind |-> "timeout", returncode |-> 0, parsed |-> "empty", mb |-> 0, has_apple |-> FALSE] }
    \cup { [kind |-> "exit", returncode |-> rc, parsed |-> p, mb |-> 0, has_apple |-> FALSE] :
             rc \in {0, 1}, p \in {"empty", "garbage"} }
    \cup { [kind |-> "exit", returncode |-> rc, parsed |-> "number", mb |-> m, has_apple |-> FALSE] :
             rc \in {0, 1}, m \in MBs }

AppleRuns == ToolRuns \cup { [t EXCEPT !.has_apple = TRUE] : t \in {u \in ToolRuns : u.kind = "exit"} }

GpuInit ==
    /\ sys_platform \in {"linux", "darwin"}
    /\ nvidia \in ToolRuns
    /\ amd \in ToolRuns
    /\ apple \in AppleRuns
    /\ gpu_result = ""
    /\ vram_result = <<>>

\* the exception subprocess.run raises for a tool, "" when it returns
RunException(t) ==
    CASE t.kind = "missing" -> "FileNotFoundError"
      [] t.kind = "timeout" -> "TimeoutExpired"
      [] OTHER -> ""

\* check_gpu_availability: the whole body is inside one try, the Apple check
\* inside a bare try/except of its own
check_gpu_availability(platform, nv, am, ap) ==
    IF RunException(nv) # "" THEN "Unknown (Error)"
    ELSE IF nv.returncode = 0 THEN "NVIDIA GPU"
    ELSE IF RunException(am) # "" THEN "Unknown (Error)"
    ELSE IF am.returncode = 0 THEN "AMD GPU"
    ELSE IF platform = "darwin" /\ RunException(ap) = "" /\ ap.has_apple THEN "Apple Silicon"
    ELSE "CPU Only"

\* (variant: only the timeout is handled)
OuterCatches_timeout_only(exc) == exc = "TimeoutExpired"

\* detect_vram: `except subprocess.TimeoutExpired` and `except Exception`
OuterCatches(exc) == exc \in {"TimeoutExpired", "FileNotFoundError", "ValueError"}

\* SystemChecker.detect_vram; the result in MB (the code divides by 1024)
detect_vram(platform, nv, am, ap) ==
    LET nvExc == IF RunException(nv) # "" THEN RunException(nv)
                 ELSE IF nv.returncode = 0 /\ nv.parsed = "garbage" THEN "ValueError"
                 ELSE ""
        nvHit == nv.kind = "exit" /\ nv.returncode = 0 /\ nv.parsed = "number"
        amExc == RunException(am)
        amHit == am.kind = "exit" /\ am.returncode = 0 /\ am.parsed = "number"
        apHit == /\ platform = "darwin"
                 /\ ap.kind = "exit" /\ ap.parsed = "number" /\ ap.mb > 0
        exc   == IF nvExc # "" THEN nvExc
                 ELSE IF nvHit THEN ""
                 ELSE amExc
        value == IF nvExc # "" THEN 0
                 ELSE IF nvHit THEN nv.mb
                 ELSE IF amExc # "" THEN 0
                 ELSE IF amHit THEN am.mb
                 ELSE IF apHit THEN ap.mb
                 ELSE 0
    IN  [raised |-> exc # "" /\ ~OuterCatches(exc), mb |-> IF exc # "" /\ ~OuterCatches(exc) THEN 0 ELSE value]

CallCheckGpu ==
    /\ gpu_result = ""
    /\ gpu_result' = check_gpu_availability(sys_platform, nvidia, amd, apple)
    /\ UNCHANGED <<sys_platform, nvidia, amd, apple, vram_result>>
    /\ UNCHANGED <<guiVars, startVars, mainVars, recVars, selVars, cfgVars, instVars>>

CallDetectVram ==
    /\ vram_result = <<>>
    /\ vram_result' = <<detect_vram(sys_platform, nvidia, amd, apple)>>
    /\ UNCHANGED <<sys_platform, nvidia, amd, apple, gpu_result>>
    /\ UNCHANGED <<guiVars, startVars, mainVars, recVars, selVars, cfgVars, instVars>>

GpuNext ==
    \/ CallCheckGpu
    \/ CallDetectVram

InitGpu == GuiInit /\ StartIdle /\ MainIdle /\ SelIdle /\ CfgIdle /\ InstIdle /\ RecIdle /\ GpuInit

SpecGpu == InitGpu /\ [][GpuNext]_vars

\* the check of a vendor succeeds
CheckSucceeds(t) == t.kind = "exit" /\ t.returncode = 0

\* C16: check_gpu_availability reports the first vendor whose check
\* succeeds (NVIDIA, AMD, Apple Silicon) and 'CPU Only' when none does; a
\* tool that is not installed or exits with a non-zero code does not keep
\* the next vendor from being checked (no tool timing out).
C16_FirstSuccessfulVendor ==
    (gpu_result # "" /\ nvidia.kind # "timeout" /\ amd.kind # "timeout" /\ apple.kind # "timeout") =>
        gpu_result =
            IF CheckSucceeds(nvidia) THEN "NVIDIA GPU"
            ELSE IF CheckSucceeds(amd) THEN "AMD GPU"
            ELSE IF sys_platform = "darwin" /\ apple.kind = "exit" /\ apple.has_apple
                 THEN "Apple Silicon"
            ELSE "CPU Only"

\* a tool printed a memory size the code parses
Yielded(t) == t.kind = "exit" /\ t.parsed = "number"

NvidiaYielded == Yielded(nvidia) /\ nvidia.returncode = 0

AmdYielded == Yielded(amd) /\ amd.returncode = 0

AppleYielded == sys_platform = "darwin" /\ Yielded(apple)

\* C17: detect_vram does not raise and returns a number >= 0; it returns 0
\* when no tool yielded a parsed memory size; a positive result is the size
\* of the first of NVIDIA, AMD, Apple that yielded one.
C17_VramNeverRaises ==
    vram_result # <<>> =>
        LET r == vram_result[1]
        IN  /\ ~r.raised
            /\ r.mb >= 0
            /\ (~NvidiaYielded /\ ~AmdYielded /\ ~AppleYielded) => r.mb = 0
            /\ r.mb > 0 =>
                 r.mb = IF NvidiaYielded THEN nvidia.mb
                        ELSE IF AmdYielded THEN amd.mb
                        ELSE apple.mb

\* nvidia-smi failed, rocm-smi printed the size
C17_Witness ==
    /\ vram_result # <<>>
    /\ nvidia.kind = "exit" /\ nvidia.returncode = 1
    /\ AmdYielded /\ amd.mb = 4096
    /\ vram_result[1] = [raised |-> FALSE, mb |-> 4096]

\* a prompt of the install menu was answered with c in this step
IrmAnswered == sel_pc = "irm" /\ prompts' = prompts + 1 /\ last_choice' # Interrupt

Pulled == Len(pulls') = Len(pulls) + 1 /\ SubSeq(pulls', 1, Len(pulls)) = pulls

NewPull == pulls'[Len(pulls')]

\* C21 as stated: '5' returns None without a pull; '1', '2', '3' pull the
\* recommendation of that number; '4' pulls the manual name or prompts
\* again; every other input pulls nothing and prompts again; the list has
\* three entries.
C21_OnlyTheFiveChoicesAct ==
    [][ IrmAnswered =>
          LET c == last_choice'
          IN  /\ Len(recommendations') = 3
              /\ c = <<"5">> => (pulls' = pulls /\ irm_result' = <<>> /\ sel_pc' # "irm")
              /\ c \in {<<"1">>, <<"2">>, <<"3">>} =>
                    (Pulled /\ NewPull.name = recommendations'[ParseInt(c)].name)
              /\ c = <<"4">> =>
                    \/ Pulled /\ NewPull.name = "orca-mini"
                    \/ pulls' = pulls /\ sel_pc' = "irm"
              /\ c \notin {<<"1">>, <<"2">>, <<"3">>, <<"4">>, <<"5">>} =>
                    (pulls' = pulls /\ sel_pc' = "irm")
      ]_vars

\* the answer is a spelling of the number n that int() accepts
Selects(c, n) == c \notin {<<"4">>, <<"5">>} /\ IsInt(c) /\ ParseInt(c) = n

\* C21 (amended): the strings '5' and '4' are compared literally; any other
\* answer is read with int(), so every spelling of 1, 2 or 3 ('01', '+2')
\* pulls the recommendation of that number, and every remaining answer
\* ('05' included) pulls nothing and prompts again.
C21_ChoicesByIntValue ==
    [][ IrmAnswered =>
          LET c == last_choice'
          IN  /\ Len(recommendations') = 3
              /\ c = <<"5">> => (pulls' = pulls /\ irm_result' = <<>> /\ sel_pc' # "irm")
              /\ \A n \in 1..3 : Selects(c, n) =>
                    (Pulled /\ NewPull.name = recommendations'[n].name)
              /\ c = <<"4">> =>
                    \/ Pulled /\ NewPull.name = "orca-mini"
                    \/ pulls' = pulls /\ sel_pc' = "irm"
              /\ (c \notin {<<"4">>, <<"5">>} /\ \A n \in 1..3 : ~Selects(c, n)) =>
                    (pulls' = pulls /\ sel_pc' = "irm")
      ]_vars

\* '05' was answered with a prompt again, then '01' pulled recommendation 1
C21_Witness ==
    /\ prompts = 2
    /\ last_choice = <<"0", "1">>
    /\ Len(pulls) = 1
    /\ recommendations # <<>>
    /\ pulls[1].name = recommendations[1].name

(***************************************************************************)
(* Installers: the commands they run and what they return.                 *)
(***************************************************************************)
\* what the user can type at a y/n question
Responses == {<<"y">>, <<" ", "Y", "E", "S", " ">>, <<"n">>, <<>>, <<"y", "e">>}

\* str.lower on the letters that matter
LowerChar(c) ==
    CASE c = "Y" -> "y" [] c = "E" -> "e" [] c = "S" -> "s" [] c = "N" -> "n"
      [] OTHER -> c

lower(s) == [i \in 1..Len(s) |-> LowerChar(s[i])]

\* input(...).strip().lower() as one of the strings the code compares with
\* ("n" stands for every answer that is neither 'y' nor 'yes')
Answer(raw) ==
    LET response == lower(strip(raw))
    IN  IF response = <<"y">> THEN "y"
        ELSE IF response = <<"y", "e", "s">> THEN "yes"
        ELSE "n"

\* the lists check_python_dependencies can return
MissingDeps == {<<>>, <<"psutil">>, <<"requests", "pillow">>}

\* a command exits with code 0 or 1, or subprocess.run raises because the
\* executable is missing
RunResults == {"0", "1", "raise"}

Rc(r) == IF r = "0" THEN 0 ELSE 1

InstInit ==
    /\ inst_env \in [deps : MissingDeps, response1 : Responses, fail_at : 0..2,
                     installed : BOOLEAN, response2 : Responses, installed2 : BOOLEAN,
                     platform : Platforms, curl : RunResults, sh : RunResults,
                     brew : RunResults]
    /\ caid_result = "none"
    /\ caid_cmds = <<>>
    /\ io_result = "none"
    /\ io_cmds = <<>>

\* install_ollama: running one of its commands raised
InstallRaised(e) ==
    \/ e.platform = "linux" /\ (e.curl = "raise" \/ (e.curl = "0" /\ e.sh = "raise"))
    \/ e.platform = "darwin" /\ e.brew = "raise"

\* install_ollama: `except subprocess.CalledProcessError` and `except Exception`
InstallCatches(exc) == exc \in {"CalledProcessError", "FileNotFoundError"}

\* install_ollama: "True", "False", or "raised" when an exception leaves it
install_ollama_outcome(e) ==
    IF ~e.installed2 /\ InstallRaised(e) /\ ~InstallCatches("FileNotFoundError")
    THEN "raised"
    ELSE Str(install_ollama(e.installed2, e.platform, Rc(e.curl), Rc(e.sh), Rc(e.brew),
                            InstallRaised(e)))

\* (variant: the install script runs whatever the download probe gave)
install_ollama_commands_script_always(e) ==
    <<"which">> \o
    IF e.installed2 THEN <<>>
    ELSE IF e.platform = "linux"
         THEN IF e.curl = "raise" THEN <<>>
              ELSE IF e.sh = "raise" THEN <<"curl">>
              ELSE <<"curl", "sh">>
    ELSE IF e.platform = "darwin"
         THEN IF e.brew = "raise" THEN <<>> ELSE <<"brew">>
    ELSE <<>>

\* the commands install_ollama runs: `which ollama` of check_ollama_installed,
\* then curl and the install script on Linux, brew on macOS
install_ollama_commands(e) ==
    <<"which">> \o
    IF e.installed2 THEN <<>>
    ELSE IF e.platform = "linux"
         THEN IF e.curl = "raise" THEN <<>>
              ELSE IF e.curl # "0" THEN <<"curl">>
              ELSE IF e.sh = "raise" THEN <<"curl">>
              ELSE <<"curl", "sh">>
    ELSE IF e.platform = "darwin"
         THEN IF e.brew = "raise" THEN <<>> ELSE <<"brew">>
    ELSE <<>>

\* SystemChecker.install_python_dependencies: pip runs for each dependency
\* up to the first failure
PipFailed(e) == e.fail_at \in 1..Len(e.deps)

PipCommands(e) ==
    [i \in 1..(IF PipFailed(e) THEN e.fail_at ELSE Len(e.deps)) |-> "pip"]

\* (variant: a declined dependency install goes on to the Ollama check)
DepsStepFailed_only_on_pip(e) ==
    e.deps # <<>> /\ Answer(e.response1) \in {"y", "yes"} /\ PipFailed(e)

\* check_and_install_dependencies returns False in the dependency step
DepsStepFailed(e) ==
    e.deps # <<>> /\ (Answer(e.response1) \notin {"y", "yes"} \/ PipFailed(e))

\* check_and_install_dependencies: "True", "False", or "raised"
check_and_install_outcome(e) ==
    IF DepsStepFailed(e) THEN "False"
    ELSE IF ~e.installed /\ Answer(e.response2) \in {"y", "yes"}
            /\ install_ollama_outcome(e) = "raised"
    THEN "raised"
    ELSE Str(check_and_install_dependencies(e.deps # <<>>, Answer(e.response1), ~PipFailed(e),
                                            e.installed, Answer(e.response2),
                                            install_ollama_outcome(e) = "True"))

\* the commands check_and_install_dependencies runs
check_and_install_commands(e) ==
    (IF e.deps # <<>> /\ Answer(e.response1) \in {"y", "yes"} THEN PipCommands(e) ELSE <<>>)
    \o
    (IF DepsStepFailed(e) THEN <<>>
     ELSE <<"which">> \o
          IF ~e.installed /\ Answer(e.response2) \in {"y", "yes"}
          THEN install_ollama_commands(e)
          ELSE <<>>)

CallCheckAndInstall ==
    /\ caid_result = "none"
    /\ caid_result' = check_and_install_outcome(inst_env)
    /\ caid_cmds' = check_and_install_commands(inst_env)
    /\ UNCHANGED <<inst_env, io_result, io_cmds>>
    /\ UNCHANGED <<guiVars, startVars, mainVars, recVars, selVars, gpuVars, cfgVars>>

CallInstallOllama ==
    /\ io_result = "none"
    /\ io_result' = install_ollama_outcome(inst_env)
    /\ io_cmds' = install_ollama_commands(inst_env)
    /\ UNCHANGED <<inst_env, caid_result, caid_cmds>>
    /\ UNCHANGED <<guiVars, startVars, mainVars, recVars, selVars, gpuVars, cfgVars>>

InstNext ==
    \/ CallCheckAndInstall
    \/ CallInstallOllama

InitInstall == GuiInit /\ StartIdle /\ MainIdle /\ SelIdle /\ GpuIdle /\ CfgIdle /\ RecIdle /\ InstInit

SpecInstall == InitInstall /\ [][InstNext]_vars

Ran(cmds, c) == \E i \in 1..Len(cmds) : cmds[i] = c

Count(cmds, c) == Cardinality({i \in 1..Len(cmds) : cmds[i] = c})

\* the user answered y or yes (any case, blanks around it)
SaidYes(raw) == lower(strip(raw)) \in {<<"y">>, <<"y", "e", "s">>}

\* the installer of the platform exited with code 0
InstallerSucceeded(e) ==
    \/ e.platform = "linux" /\ e.curl = "0" /\ e.sh = "0"
    \/ e.platform = "darwin" /\ e.brew = "0"

\* C22: check_and_install_dependencies returns True only if (nothing was
\* missing, or the user said yes and every pip install succeeded) and
\* (Ollama was installed, or the user said yes and install_ollama returned
\* True); a declined question gives False with no install command for that
\* item; after a failed dependency step the Ollama check is not reached.
C22_DependenciesGate ==
    caid_result # "none" =>
        LET e == inst_env
            depsOk == e.deps = <<>> \/ (SaidYes(e.response1) /\ ~(e.fail_at \in 1..Len(e.deps)))
        IN  /\ caid_result = "True" =>
                 /\ depsOk
                 /\ e.installed \/ (SaidYes(e.response2) /\ (e.installed2 \/ InstallerSucceeded(e)))
            /\ (e.deps # <<>> /\ ~SaidYes(e.response1)) =>
                 (caid_result = "False" /\ ~Ran(caid_cmds, "pip"))
            /\ (depsOk /\ ~e.installed /\ ~SaidYes(e.response2)) =>
                 /\ caid_result = "False"
                 /\ ~Ran(caid_cmds, "curl") /\ ~Ran(caid_cmds, "sh") /\ ~Ran(caid_cmds, "brew")
                 /\ Count(caid_cmds, "which") = 1
            /\ ~depsOk =>
                 /\ caid_result = "False"
                 /\ \A i \in 1..Len(caid_cmds) : caid_cmds[i] = "pip"
            /\ e.deps = <<>> => ~Ran(caid_cmds, "pip")

\* both dependencies were installed, then Ollama by its script
C22_Witness ==
    /\ caid_result = "True"
    /\ inst_env.deps = <<"requests", "pillow">>
    /\ caid_cmds = <<"pip", "pip", "which", "which", "curl", "sh">>

\* C23: install_ollama does not raise; with Ollama present it returns True
\* and runs no download or install command; on a platform other than
\* Linux and macOS it returns False and runs none; the install script runs
\* only after curl exited with 0; True means Ollama was present or the
\* installer exited with 0.
C23_InstallOnlyWhenNeeded ==
    io_result # "none" =>
        LET e == inst_env
            installs == {"curl", "sh", "brew"}
        IN  /\ io_result \in {"True", "False"}
            /\ e.installed2 =>
                 (io_result = "True" /\ \A c \in installs : ~Ran(io_cmds, c))
            /\ (~e.installed2 /\ e.platform \notin {"linux", "darwin"}) =>
                 (io_result = "False" /\ \A c \in installs : ~Ran(io_cmds, c))
            /\ Ran(io_cmds, "sh") =>
                 (e.platform = "linux" /\ e.curl = "0" /\ io_cmds = <<"which", "curl", "sh">>)
            /\ io_result = "True" => (e.installed2 \/ InstallerSucceeded(e))

\* on Linux the download failed and the script was not run
C23_Witness ==
    /\ io_result = "False"
    /\ inst_env.platform = "linux" /\ inst_env.curl = "1" /\ inst_env.sh = "0"
    /\ io_cmds = <<"which", "curl">>

InitStart == GuiInit /\ StartInit /\ MainInit /\ RestIdle /\ RecIdle

SpecStart == InitStart /\ [][StartNext]_vars

Init == GuiInit /\ StartIdle /\ MainIdle /\ RestIdle /\ RecIdle

Next ==
    \/ \E s \in Inputs : TypeInput(s)
    \/ ClickSend
    \/ PressReturn
    \/ \E r \in Requests : WorkerRead(r)
    \/ \E r \in Requests, o \in Outcomes : WorkerFinish(r, o)
    \/ RunAfter
    \/ ClickUpload
    \/ DismissMessagebox
    \/ clear_chat
    \/ on_closing

Spec == Init /\ [][Next]_vars

\* the worker threads and the event loop are scheduled fairly, and the
\* network call returns or raises (timeout=120)
FairSpec ==
    /\ Spec
    /\ WF_vars(RunAfter)
    /\ \A r \in Requests : WF_vars(WorkerRead(r))
    /\ \A r \in Requests : WF_vars(\E o \in Outcomes : WorkerFinish(r, o))

(***************************************************************************)
(* Properties of the chat window.                                          *)
(***************************************************************************)
\* a request is in flight from send_message until its display_* callback ran
InFlight(r) == threads[r].pc # "none" /\ threads[r].displayed = 0

Failed(o) == o.raised \/ o.status_code # 200 \/ ~o.json_ok

ErrorText(o) ==
    IF o.raised \/ o.status_code = 200
    THEN <<"Error: ", o.exc>>
    ELSE <<"API error: ", ToString(o.status_code)>>

AgentCount(log) == Cardinality({i \in 1..Len(log) : log[i].sender = "Agent"})

ControlsEnabled == send_btn = "normal" /\ upload_btn = "normal"

\* C1: at most one chat request is in flight at any time.
C1_AtMostOneInFlight ==
    Cardinality({r \in Requests : InFlight(r)}) <= 1

\* C2: while a chat request is in flight, the Send button and the Upload
\* button are both disabled.
C2_DisabledWhileInFlight ==
    (\E r \in Requests : InFlight(r)) =>
        (send_btn = "disabled" /\ upload_btn = "disabled")

\* C3: a worker schedules at most one callback, and a worker that has
\* finished (whatever the outcome of the call) has scheduled exactly one,
\* which runs at most once.
C3_ExactlyOneHandBack ==
    \A r \in Requests :
        /\ threads[r].scheduled <= 1
        /\ threads[r].pc = "done" => threads[r].scheduled = 1
        /\ threads[r].pc # "done" => threads[r].scheduled = 0
        /\ Cardinality({i \in 1..Len(afterq) : afterq[i].req = r})
             = threads[r].scheduled - threads[r].displayed

\* a worker has handed back a non-200 reply, and its callback has run
C3_Witness ==
    \E r \in Requests :
        /\ threads[r].pc = "done" /\ threads[r].displayed = 1
        /\ chat_text # <<>>
        /\ chat_text[Len(chat_text)].message = <<"API error: ", "500">>

\* C4: once send_message has disabled the controls, a state follows in which
\* both buttons are enabled and the status is Ready or Error (while the
\* window exists: on_closing ends the event loop and the process).
C4_ControlsComeBack ==
    (send_btn = "disabled" /\ upload_btn = "disabled")
        ~> ((ControlsEnabled /\ status_label \in {<<"Ready">>, <<"Error">>}) \/ ~windowOpen)

\* the controls are enabled again after a request that timed out
C4_Witness ==
    /\ windowOpen /\ ControlsEnabled /\ status_label = <<"Error">>
    /\ chat_text # <<>>
    /\ chat_text[Len(chat_text)].message = <<"Error: ", "ReadTimeout">>

\* C5: the prompt of a request is built from the upload state that held
\* when send_message was called (upload_file does not write uploaded_content
\* between the start of a worker and its read).
C5_PromptUsesUploadAtSend ==
    \A r \in Requests :
        threads[r].pc \in {"post", "done"} =>
            threads[r].context = BuildContext(threads[r].upload_at_send, threads[r].user_input)

\* C6: the callback of a failed request appends exactly one System message
\* with the error text and sets the status to Error; an Agent message is
\* appended only by the callback of a 200 reply.
C6_FailureIsSystemMessage ==
    [][ /\ \A r \in Requests :
            (threads'[r].displayed = threads[r].displayed + 1 /\ Failed(Head(afterq).outcome)) =>
                /\ chat_text' = Append(chat_text,
                        [sender |-> "System", message |-> ErrorText(Head(afterq).outcome)])
                /\ status_label' = <<"Error">>
        /\ AgentCount(chat_text') > AgentCount(chat_text) =>
                /\ afterq # <<>>
                /\ ~Failed(Head(afterq).outcome)
                /\ threads'[Head(afterq).req].displayed = threads[Head(afterq).req].displayed + 1
                /\ AgentCount(chat_text') = AgentCount(chat_text) + 1
      ]_vars

\* the error of a request that raised is in the log as a System message
C6_Witness ==
    /\ status_label = <<"Error">>
    /\ chat_text # <<>>
    /\ chat_text[Len(chat_text)] = [sender |-> "System", message |-> <<"Error: ", "ConnectionError">>]

UploadedMessage(content) ==
    [sender |-> "System",
     message |-> <<"Uploaded file: ", FileName, "\nContent preview: ">>
                 \o SubSeq(content, 1, Min(Len(content), PreviewLen)) \o <<"...">>]

\* C13: a step of upload_file that puts up the error dialog (and the step
\* that closes it) changes neither uploaded_content nor the chat log nor the
\* status label; uploaded_content changes only in a step that is a
\* successful read: that step counts an upload, shows no dialog, appends
\* the "Uploaded file" message and sets the status to "File uploaded".
C13_FailedUploadChangesNothing ==
    [][ /\ messagebox' # messagebox =>
              UNCHANGED <<uploaded_content, chat_text, status_label, nuploads,
                          input_entry, send_btn, upload_btn>>
        /\ uploaded_content' # uploaded_content =>
              /\ nuploads' = nuploads + 1
              /\ messagebox = "" /\ messagebox' = ""
              /\ uploaded_content' # <<>>
              /\ chat_text' = Append(chat_text, UploadedMessage(uploaded_content'[1]))
              /\ status_label' = <<"File uploaded: ", FileName>>
      ]_vars

\* the read of a second file failed after a first file was stored
C13_Witness ==
    /\ messagebox = "Upload Error"
    /\ uploaded_content = << <<"x">> >>
    /\ nuploads = 1
    /\ status_label = <<"File uploaded: ", FileName>>

C24_BlankSendIsNoOp ==
    [][ (last_event' = "send_message" /\ strip(input_entry) = <<>>) =>
            UNCHANGED <<input_entry, chat_text, status_label, send_btn, upload_btn,
                        threads, nreq, afterq, uploaded_content>>
      ]_vars

\* Return was pressed on a blank input while a request was in flight
C24_Witness ==
    /\ last_event = "send_message"
    /\ input_entry = <<" ">>
    /\ nreq = 1
    /\ send_btn = "disabled"
    /\ Len(chat_text) = 1

ClearedLog == <<[sender |-> "System", message |-> <<"Chat cleared">>]>>

\* C25: right after clear_chat the log is the single message "System: Chat
\* cleared" and the uploaded content, the buttons, the status, the workers
\* and the scheduled callbacks are unchanged; a callback that runs later
\* appends its message to the log as it then is.
C25_ClearResetsOnlyTheLog ==
    [][ /\ last_event' = "clear_chat" =>
              /\ chat_text' = ClearedLog
              /\ UNCHANGED <<uploaded_content, send_btn, upload_btn, status_label,
                             threads, nreq, afterq, input_entry>>
        /\ (last_event' = "after" /\ afterq # <<>> /\ afterq' = Tail(afterq)) =>
              /\ Len(chat_text') = Len(chat_text) + 1
              /\ SubSeq(chat_text', 1, Len(chat_text)) = chat_text
              /\ chat_text'[Len(chat_text')].message = Head(afterq).arg
      ]_vars

\* the reply to a request sent before the clear came after it
C25_Witness ==
    /\ Len(chat_text) = 2
    /\ chat_text[1] = ClearedLog[1]
    /\ chat_text[2] = [sender |-> "Agent", message |-> ResponseText]
    /\ nreq = 1

====
